---------------------------- MODULE Spec2Model ----------------------------
(***************************************************************************)
(* A model of the CUE sheet parser of hermes (src/src/cue/parser.rs and    *)
(* src/src/cue.rs).  Text is modelled by TLA+ strings, one character per   *)
(* position; every parsing primitive is computed character by character    *)
(* the way the Rust code computes it.  The parser itself is a state        *)
(* machine: one action per pull of the line scanner (Parser::next)         *)
(* together with the match arm that handles the pulled line.               *)
(*                                                                         *)
(* Operators bind intermediate results as parameters of LET-local         *)
(* operators (`let x = e;` becomes go(e)), so each is evaluated once.      *)
(*                                                                         *)
(* Numbers: TLC's integers are 32 bits wide, so the inputs drawn below     *)
(* keep every u32/u64 value of the program under 2^31; overflow of the     *)
(* u64 accumulation in parse_index is outside the inputs explored.         *)
(***************************************************************************)
EXTENDS Integers, Sequences, FiniteSets, TLC

VARIABLES
    lines,       \* Parser.lines: the input, a sequence of lines
    ln,          \* Parser.ln: the scanner's cursor (0-based index of the next line)
    pc,          \* where the parser stands: the loop that pulls next, or the outcome
    cue,         \* `cue` of Parser::parse
    disc,        \* `disc` of Parser::parse_disc
    track,       \* `track` of Parser::parse_disc
    have_index,  \* `have_index` of Parser::parse_disc
    track_ln,    \* `track_ln` of Parser::parse_disc
    err,         \* the Error returned (ln, msg), when pc = "error"
    pulled,      \* history: line indices in the order Parser::next emitted them
    first,       \* the first parse of a sheet parsed twice: its outcome and its lines
    recase,      \* the letter case of the field names in the second parse
    tc,          \* one call of parse_index: the numbers written, the text, the result
    probe,       \* the line a sheet is written around: its index, scope, field and remainder
    caller       \* what the caller of Parser::parse has made of its result

vars == <<lines, ln, pc, cue, disc, track, have_index, track_ln, err,
          pulled, first, recase, tc, probe, caller>>

----------------------------------------------------------------------------
(* Results of fallible functions: Ok(v), Err(msg), or a panic (abort).     *)

Ok(v) == [tag |-> "ok", val |-> v, msg |-> ""]

Err(m) == [tag |-> "err", val |-> <<>>, msg |-> m]

Panic == [tag |-> "panic", val |-> <<>>, msg |-> ""]

(* Option<T>: None is the empty tuple, Some(v) the one-element tuple.      *)
None == <<>>

Some(v) == <<v>>

----------------------------------------------------------------------------
(* Characters and strings.                                                 *)

At(s, k) == SubSeq(s, k, k)

From(s, k) == SubSeq(s, k, Len(s))

Upto(s, k) == SubSeq(s, 1, k)

\* Characters of the inputs whose UTF-8 encoding takes two bytes.  The
\* sheets are written in ASCII, where # stands for such a character (an
\* accented letter, say): it is one character of two bytes wherever the
\* parser counts bytes.
TwoByteChars == {"#"}

Utf8Len(c) == IF c \in TwoByteChars THEN 2 ELSE 1

\* Byte offset (0-based) of the k-th character of s; of the end for k = Len(s)+1.
RECURSIVE ByteOff(_, _)
ByteOff(s, k) ==
    IF k <= 1 THEN 0 ELSE ByteOff(s, k - 1) + Utf8Len(At(s, k - 1))

\* &s[b..] for a byte offset b: the suffix, or a panic when b is past the end
\* or inside a character.
SliceFromByte(s, b) ==
    LET starts == {k \in 1..(Len(s) + 1) : ByteOff(s, k) = b}
    IN  IF starts = {} THEN Panic
        ELSE Ok(From(s, CHOOSE k \in starts : TRUE))

\* char::is_ascii_whitespace
IsAsciiWhitespace(c) == c \in {" ", "\t", "\n", "\f", "\r"}

\* char::is_whitespace (White_Space), over the characters of the inputs
IsWhitespace(c) == c \in {" ", "\t", "\n", "\f", "\r"}

IsSpaceOrTab(c) == c \in {" ", "\t"}

Min(S) == CHOOSE x \in S : \A y \in S : x <= y

Max(S) == CHOOSE x \in S : \A y \in S : x >= y

\* str::find with a predicate: the first position (1-based) whose character
\* satisfies P, 0 when there is none.
Find(s, P(_)) ==
    LET hits == {k \in 1..Len(s) : P(At(s, k))}
    IN  IF hits = {} THEN 0 ELSE Min(hits)

NotWs(c) == ~IsWhitespace(c)

NotAsciiWs(c) == ~IsAsciiWhitespace(c)

NotSpaceOrTab(c) == ~IsSpaceOrTab(c)

\* str::trim_start
trim_start(s) ==
    LET k == Find(s, NotWs) IN IF k = 0 THEN "" ELSE From(s, k)

\* str::trim
trim(s) ==
    LET keep == {k \in 1..Len(s) : NotWs(At(s, k))}
    IN  IF keep = {} THEN "" ELSE SubSeq(s, Min(keep), Max(keep))

UpperLetters == "ABCDEFGHIJKLMNOPQRSTUVWXYZ"

LowerLetters == "abcdefghijklmnopqrstuvwxyz"

\* The character at the same place of `to` as c has in `from`.
Translate(from, to) ==
    [c \in {At(from, i) : i \in 1..Len(from)} |->
        At(to, CHOOSE i \in 1..Len(from) : At(from, i) = c)]

LowerOf == Translate(UpperLetters, LowerLetters)

UpperOf == Translate(LowerLetters, UpperLetters)

to_lowercase_char(c) == IF c \in DOMAIN LowerOf THEN LowerOf[c] ELSE c

to_uppercase_char(c) == IF c \in DOMAIN UpperOf THEN UpperOf[c] ELSE c

\* to_lowercase, leaving every character as it is.
to_lowercase_asis(s) == s

\* str::to_lowercase
RECURSIVE to_lowercase(_)
to_lowercase(s) ==
    IF s = "" THEN "" ELSE to_lowercase_char(Head(s)) \o to_lowercase(Tail(s))

\* str::to_uppercase
RECURSIVE to_uppercase(_)
to_uppercase(s) ==
    IF s = "" THEN "" ELSE to_uppercase_char(Head(s)) \o to_uppercase(Tail(s))

Digits == "0123456789"

\* The value of each decimal digit.
DigitVal == [c \in {At(Digits, i) : i \in 1..Len(Digits)} |->
                (CHOOSE i \in 1..Len(Digits) : At(Digits, i) = c) - 1]

IsDigit(c) == c \in DOMAIN DigitVal

RECURSIVE DigitsValue(_, _)
DigitsValue(s, acc) ==
    IF s = "" THEN acc ELSE DigitsValue(Tail(s), acc * 10 + DigitVal[Head(s)])

\* str::parse::<u32>() and str::parse::<u64>(): an optional '+', then one or
\* more decimal digits.
parse_unsigned(s) ==
    LET body == IF s # "" /\ Head(s) = "+" THEN Tail(s) ELSE s
    IN  IF body = "" \/ \E k \in 1..Len(body) : ~IsDigit(At(body, k))
        THEN Err("invalid digit")
        ELSE Ok(DigitsValue(body, 0))

\* str::split(':'): the fields, leftmost first.
RECURSIVE lsplit(_)
lsplit(s) ==
    LET colons == {k \in 1..Len(s) : At(s, k) = ":"}
    IN  IF colons = {} THEN <<s>>
        ELSE <<Upto(s, Min(colons) - 1)>> \o lsplit(From(s, Min(colons) + 1))

\* str::rsplit(':'): the fields, rightmost first.
RECURSIVE rsplit(_)
rsplit(s) ==
    LET colons == {k \in 1..Len(s) : At(s, k) = ":"}
    IN  IF colons = {} THEN <<s>>
        ELSE <<From(s, Max(colons) + 1)>> \o rsplit(Upto(s, Max(colons) - 1))

----------------------------------------------------------------------------
(* The value-parsing primitives of parser.rs.                              *)

\* fn consume_space1: skip one or more spaces/tabs; None unless at least one
\* was skipped and something follows.
consume_space1(input) ==
    LET at(i) == IF i <= 1 THEN None ELSE Some(From(input, i))
    IN  at(Find(input, NotSpaceOrTab))

\* fn next_word: the first whitespace-delimited word and what follows it.
next_word(s0) ==
    LET cut(s, e) ==
            IF e = 0 THEN Some([rest |-> "", word |-> s])
            ELSE Some([rest |-> From(s, e), word |-> Upto(s, e - 1)])
        word(s) == cut(s, Find(s, IsAsciiWhitespace))
        from(start) == IF start = 0 THEN None ELSE word(From(s0, start))
    IN  from(Find(s0, NotAsciiWs))

\* escaped, where no character has a mapping.
escaped_plain(c) == c

\* fn escaped
escaped(c) ==
    CASE c = "n" -> "\n"
      [] c = "t" -> "\t"
      [] c = "r" -> "\r"
      [] OTHER   -> c

\* The loop of parse_str's unquoted branch, from the k-th character on; `end`
\* is the byte offset of the last character taken.  After the loop the rest
\* is input[end + 1..]; an empty buf fails the debug assertion in a debug
\* build and the slice in a release build.
RECURSIVE UnquotedLoop(_, _, _, _)
UnquotedLoop(input, k, buf, end) ==
    LET sliced(rest) ==
            IF rest.tag = "panic" THEN Panic
            ELSE Ok([rest |-> rest.val, buf |-> buf])
    IN  IF k > Len(input) \/ At(input, k) \in {" ", "\t", "\r", "\n"}
        THEN IF buf = "" THEN Panic
             ELSE sliced(SliceFromByte(input, end + 1))
        ELSE IF At(input, k) = "\\"
             THEN IF k + 1 <= Len(input)
                  THEN UnquotedLoop(input, k + 2, buf \o escaped(At(input, k + 1)),
                                    ByteOff(input, k + 1))
                  ELSE Ok([rest |-> "", buf |-> buf \o "\\"])
             ELSE UnquotedLoop(input, k + 1, buf \o At(input, k), ByteOff(input, k))

\* The loop of parse_str's quoted branch, from the k-th character on.
RECURSIVE QuotedLoop(_, _, _)
QuotedLoop(input, k, buf) ==
    IF k > Len(input) THEN Err("unterminated double-quoted string")
    ELSE IF At(input, k) = "\""
         THEN Ok([rest |-> From(input, k + 1), buf |-> buf])
    ELSE IF At(input, k) = "\\"
         THEN IF k + 1 <= Len(input)
              THEN QuotedLoop(input, k + 2, buf \o escaped(At(input, k + 1)))
              ELSE Err("unterminated double-quoted string")
    ELSE QuotedLoop(input, k + 1, buf \o At(input, k))

\* fn parse_str: the first token, quoted or not, and the rest after it.
parse_str(input0) ==
    LET go(input) ==
            IF input = "" \/ Head(input) # "\""
            THEN UnquotedLoop(input, 1, "", 0)
            ELSE QuotedLoop(input, 2, "")
    IN  go(trim_start(input0))

\* fn parse_val
parse_val(input0) ==
    LET quoted(r) ==
            IF r.tag # "ok" THEN r
            ELSE IF trim(r.val.rest) # "" THEN Err("too many values in line")
            ELSE Ok(r.val.buf)
        go(input) ==
            IF input = "" THEN Err("missing value")
            ELSE IF Len(input) > 1 /\ Head(input) = "\""
                    /\ At(input, Len(input)) = "\""
                 THEN quoted(parse_str(input))
            ELSE Ok(input)
    IN  go(trim(input0))

\* fn parse_rem: the key and the value of a comment.
parse_rem(input0) ==
    LET value(key, v) ==
            IF v.tag # "ok" THEN v ELSE Ok([k |-> key, v |-> trim(v.val)])
        split(key, rest, i) ==
            IF i = 0 THEN Ok([k |-> key, v |-> ""])
            ELSE value(key, parse_val(From(rest, i)))
        keyed(r) ==
            IF r.tag # "ok" THEN r
            ELSE split(r.val.buf, r.val.rest, Find(r.val.rest, NotSpaceOrTab))
        go(input) ==
            IF input = "" THEN Err("expected 2 values, have none")
            ELSE keyed(parse_str(input))
    IN  go(trim_start(input0))

\* multipliers, with no weight for a field of milliseconds: the rightmost
\* field counted as seconds.
multipliers_seconds == <<1000, 60000, 60 * 60000, 24 * 60 * 60000>>

\* The weights zipped with the fields in parse_index, rightmost field first.
multipliers == <<1, 1000, 60000, 60 * 60000>>

\* The `for (field, multiplier) in nums.zip(..)` loop of parse_index, from
\* the i-th pair on: the sum, or -1 when a field does not parse.
RECURSIVE IndexLoop(_, _, _)
IndexLoop(nums, i, n) ==
    LET add(f) ==
            IF f.tag # "ok" THEN -1
            ELSE IndexLoop(nums, i + 1, n + multipliers[i] * f.val)
    IN  IF i > Len(nums) \/ i > Len(multipliers) THEN n
        ELSE add(parse_unsigned(nums[i]))

\* fn parse_index
parse_index(input) ==
    LET sum(word, n) ==
            IF n < 0 THEN Err("invalid index time: " \o word) ELSE Ok(n)
        timed(word) ==
            IF word.tag # "ok" THEN word
            ELSE sum(word.val, IndexLoop(rsplit(word.val), 1, 0))
        spaced(sp) ==
            IF sp = None THEN Err("missing time specifier after index number")
            ELSE timed(parse_val(sp[1]))
        worded(w) ==
            IF w = None THEN Err("missing index number")
            ELSE spaced(consume_space1(w[1].rest))
    IN  worded(next_word(input))

----------------------------------------------------------------------------
(* The data model of cue.rs.  A BTreeMap<String, String> is a function     *)
(* from its keys to their values.                                          *)

CueDefault ==
    [rems |-> <<>>, title |-> None, performer |-> None, songwriter |-> None,
     catalog |-> None, discs |-> <<>>]

DiscDefault ==
    [rems |-> <<>>, catalog |-> None, performer |-> None, songwriter |-> None,
     title |-> None, file |-> "", tracks |-> <<>>]

TrackDefault ==
    [number |-> 0, title |-> None, performer |-> None, songwriter |-> None,
     isrc |-> None, index |-> 0, rems |-> <<>>]

\* BTreeMap::insert
insert(m, k, v) == [x \in (DOMAIN m) \cup {k} |-> IF x = k THEN v ELSE m[x]]

NoError == [ln |-> 0, msg |-> ""]

----------------------------------------------------------------------------
(* The scanner.                                                            *)

\* next, emitting a blank line as a triple with an empty field name.
next_blank(ls, i) ==
    LET item(w) ==
            IF w = None THEN Some([ln |-> i, field |-> "", rest |-> ""])
            ELSE Some([ln |-> i, field |-> w[1].word, rest |-> w[1].rest])
    IN  IF i >= Len(ls) THEN None ELSE item(next_word(ls[i + 1]))

\* Parser::next from cursor i: the first non-blank line at or after it, as
\* (line index, field name, remainder); None when there is none.
RECURSIVE next(_, _)
next(ls, i) ==
    LET item(w) ==
            IF w = None THEN next(ls, i + 1)
            ELSE Some([ln |-> i, field |-> w[1].word, rest |-> w[1].rest])
    IN  IF i >= Len(ls) THEN None ELSE item(next_word(ls[i + 1]))

\* The cursor Parser::next leaves behind.
CursorAfter(ls, from, item) ==
    IF item = None THEN (IF from < Len(ls) THEN Len(ls) ELSE from)
    ELSE item[1].ln + 1

\* Parser::is_exhausted
is_exhausted(ls, cursor) == cursor >= Len(ls)


----------------------------------------------------------------------------
(* The match arms that store a field.  Each gives Ok(the updated scope),   *)
(* or the error or panic of the value parser.                              *)

\* SetScalar, where a field already set keeps its value.
SetScalar_first(scope, name, val) ==
    LET set(r) ==
            IF r.tag # "ok" THEN r
            ELSE IF scope[name] # None THEN Ok(scope)
            ELSE Ok([scope EXCEPT ![name] = Some(r.val)])
    IN  set(parse_val(val))

\* `scope.name = Some(parse_val(val)?)`
SetScalar(scope, name, val) ==
    LET set(r) ==
            IF r.tag # "ok" THEN r ELSE Ok([scope EXCEPT ![name] = Some(r.val)])
    IN  set(parse_val(val))

\* `let (k, v) = parse_rem(val)?; scope.rems.insert(k, v)`
SetRem(scope, val) ==
    LET set(r) ==
            IF r.tag # "ok" THEN r
            ELSE Ok([scope EXCEPT !.rems = insert(@, r.val.k, r.val.v)])
    IN  set(parse_rem(val))

\* UpdateIndex, keeping the value seen last in place of the larger one.
UpdateIndex_last(old, idx) == idx

\* `track.index = u64::max(track.index, idx)`
UpdateIndex(old, idx) == IF idx > old THEN idx ELSE old

\* The "index" arm of the track loop.
SetIndex(t, val) ==
    LET set(r) ==
            IF r.tag # "ok" THEN r
            ELSE Ok([t EXCEPT !.index = UpdateIndex(@, r.val)])
    IN  set(parse_index(val))

\* The field names each loop stores, besides those that end or fail the scope.
GlobalFields == {"rem", "title", "performer", "catalog", "songwriter"}

DiscFields == {"rem", "title", "performer", "songwriter", "catalog"}

TrackFields == {"index", "title", "performer", "songwriter", "isrc", "flags", "rem"}

\* The storing arms of the global loop of Parser::parse.
GlobalArm(c, f, val) ==
    IF f = "rem" THEN SetRem(c, val) ELSE SetScalar(c, f, val)

\* The storing arms of the disc loop of Parser::parse_disc.
DiscArm(d, f, val) ==
    IF f = "rem" THEN SetRem(d, val) ELSE SetScalar(d, f, val)

\* The storing arms of the track loop of Parser::parse_disc.
TrackArm(t, f, val) ==
    CASE f = "index" -> SetIndex(t, val)
      [] f = "flags" -> Ok(t)
      [] f = "rem"   -> SetRem(t, val)
      [] OTHER       -> SetScalar(t, f, val)

----------------------------------------------------------------------------
(* The parser.  Each step operator takes the parser's state as a record s  *)
(* (the Parser's cursor and the locals of parse and parse_disc) and gives  *)
(* the state after one pull of the scanner and the arm that handles it.    *)
(* The messages are those of the source, with an apostrophe where the      *)
(* source writes a backquote.                                              *)

Self ==
    [ln |-> ln, pc |-> pc, cue |-> cue, disc |-> disc, track |-> track,
     have_index |-> have_index, track_ln |-> track_ln, err |-> err,
     pulled |-> pulled]

\* `return err!(l, m)` and `.line(l)?` on an Err
Fail(s, l, m) == [s EXCEPT !.pc = "error", !.err = [ln |-> l, msg |-> m]]

\* a panic: a failed unwrap, assertion or slice
Abort(s) == [s EXCEPT !.pc = "panic"]

\* Settle, where a title stored in a track is stored in its disc as well.
Settle_leak(s, r, l, scope) ==
    CASE r.tag = "ok" /\ scope = "track" ->
           [s EXCEPT !.track = r.val, !.disc.title = r.val.title]
      [] r.tag = "ok"  -> [s EXCEPT ![scope] = r.val]
      [] r.tag = "err" -> Fail(s, l, r.msg)
      [] OTHER         -> Abort(s)

\* What a storing arm leaves: the updated scope, or its error at line l.
Settle(s, r, l, scope) ==
    CASE r.tag = "ok"  -> [s EXCEPT ![scope] = r.val]
      [] r.tag = "err" -> Fail(s, l, r.msg)
      [] OTHER         -> Abort(s)

\* Pull, where a line that was pushed back is pushed back once more before
\* it is consumed.
Pull_again(s, item) ==
    IF item # None /\ s.pulled # <<>> /\ s.pulled[Len(s.pulled)] = item[1].ln
          /\ ~(Len(s.pulled) > 1 /\ s.pulled[Len(s.pulled) - 1] = item[1].ln)
    THEN [s EXCEPT !.ln = item[1].ln, !.pulled = Append(@, item[1].ln),
                   !.pc = s.pc]
    ELSE [s EXCEPT !.ln = CursorAfter(lines, s.ln, item),
                   !.pulled = IF item = None THEN @ ELSE Append(@, item[1].ln)]

\* The state s once Parser::next has given `item`: the cursor advanced, and
\* the index emitted added to the history.
Pull(s, item) ==
    [s EXCEPT !.ln = CursorAfter(lines, s.ln, item),
              !.pulled = IF item = None THEN @ ELSE Append(@, item[1].ln)]

\* AfterGlobal, reporting a missing FILE at the cursor.
AfterGlobal_cursor(s) ==
    IF is_exhausted(lines, s.ln)
    THEN Fail(s, s.ln, "cue sheet is missing a 'FILE' declaration")
    ELSE [s EXCEPT !.pc = "disc"]

\* After the global loop of Parser::parse: the missing-FILE check, then the
\* first call of parse_disc.
AfterGlobal(s) ==
    IF is_exhausted(lines, s.ln)
    THEN Fail(s, 0, "cue sheet is missing a 'FILE' declaration")
    ELSE [s EXCEPT !.pc = "disc"]

\* TrackBeforeFile, reporting the line after the TRACK line.
TrackBeforeFile_cursor(s, l) == Fail(s, s.ln, "'TRACK' declared before any 'FILE'")

\* The "track" arm of the global loop, for the TRACK line at index l.
TrackBeforeFile(s, l) == Fail(s, l, "'TRACK' declared before any 'FILE'")

\* One iteration of the global loop of Parser::parse.
parse_global(s) ==
    LET arm(adv, t, f) ==
            CASE f \in GlobalFields ->
                   Settle(adv, GlobalArm(adv.cue, f, t.rest), t.ln, "cue")
              [] f = "file"  -> AfterGlobal([adv EXCEPT !.ln = t.ln])
              [] f = "track" -> TrackBeforeFile(adv, t.ln)
              [] OTHER ->
                   Fail(adv, t.ln, "unknown field for a disc: " \o t.field)
        on(item, adv) ==
            IF item = None THEN AfterGlobal(adv)
            ELSE arm(adv, item[1], to_lowercase(item[1].field))
        scan(item) == on(item, Pull(s, item))
    IN  scan(next(lines, s.ln))

\* `cue.discs.push(self.parse_disc()?)` once parse_disc returns Ok(d), and
\* the test of the `while !self.is_exhausted()` loop that follows.
ReturnDisc(s, d) ==
    IF is_exhausted(lines, s.ln)
    THEN [s EXCEPT !.cue.discs = Append(@, d), !.pc = "done"]
    ELSE [s EXCEPT !.cue.discs = Append(@, d), !.pc = "disc"]

\* The head of Parser::parse_disc: the FILE line.  `debug` tells whether the
\* build checks debug assertions.
parse_disc_file(s, debug) ==
    LET file(adv, r) ==
            CASE r.tag = "ok" ->
                   [adv EXCEPT !.disc = [DiscDefault EXCEPT !.file = r.val.buf],
                               !.pc = "disc_fields"]
              [] r.tag = "err" -> Fail(adv, adv.ln, r.msg)
              [] OTHER -> Abort(adv)
        on(item, adv) ==
            IF item = None THEN Abort(adv)
            ELSE IF debug /\ to_lowercase(item[1].field) # "file" THEN Abort(adv)
            ELSE file(adv, parse_str(item[1].rest))
        scan(item) == on(item, Pull(s, item))
    IN  scan(next(lines, s.ln))

\* After the disc loop of parse_disc: an exhausted input returns the disc,
\* anything else goes on to the track loop.
AfterDiscFields(s) ==
    IF is_exhausted(lines, s.ln) THEN ReturnDisc(s, s.disc)
    ELSE [s EXCEPT !.pc = "tracks"]

\* One iteration of the disc loop of Parser::parse_disc.
parse_disc_fields(s) ==
    LET arm(adv, t, f) ==
            CASE f = "track" -> AfterDiscFields([adv EXCEPT !.ln = t.ln])
              [] f \in DiscFields ->
                   Settle(adv, DiscArm(adv.disc, f, t.rest), t.ln, "disc")
              [] f = "file" -> ReturnDisc([adv EXCEPT !.ln = t.ln], adv.disc)
              [] OTHER ->
                   Fail(adv, t.ln, "unknown field for disc: " \o t.field)
        on(item, adv) ==
            IF item = None THEN AfterDiscFields(adv)
            ELSE arm(adv, item[1], to_lowercase(item[1].field))
        scan(item) == on(item, Pull(s, item))
    IN  scan(next(lines, s.ln))

\* The head of one iteration of the track loop of parse_disc: the TRACK line.
parse_track_decl(s, debug) ==
    LET numbered(adv, t, no) ==
            IF no.tag # "ok" THEN Fail(adv, t.ln, "invalid track number")
            ELSE [adv EXCEPT !.track = [TrackDefault EXCEPT !.number = no.val],
                             !.have_index = FALSE,
                             !.track_ln = t.ln,
                             !.pc = "track_fields"]
        decl(adv, t, r) ==
            CASE r.tag = "err"   -> Fail(adv, t.ln, r.msg)
              [] r.tag = "panic" -> Abort(adv)
              [] OTHER -> numbered(adv, t, parse_unsigned(r.val.buf))
        on(item, adv) ==
            IF item = None THEN ReturnDisc(adv, adv.disc)
            ELSE IF debug /\ to_lowercase(item[1].field) # "track" THEN Abort(adv)
            ELSE decl(adv, item[1], parse_str(item[1].rest))
        scan(item) == on(item, Pull(s, item))
    IN  scan(next(lines, s.ln))

\* CloseTrack, pushing the track to the front of the disc's tracks.
CloseTrack_front(s) ==
    IF ~s.have_index
    THEN Fail(s, s.track_ln, "track is missing a 'INDEX' declaration")
    ELSE [s EXCEPT !.disc.tracks = <<s.track>> \o @, !.pc = "tracks"]

\* After the inner loop of parse_disc's track loop: the INDEX check and the
\* push of the track.
CloseTrack(s) ==
    IF ~s.have_index
    THEN Fail(s, s.track_ln, "track is missing a 'INDEX' declaration")
    ELSE [s EXCEPT !.disc.tracks = Append(@, s.track), !.pc = "tracks"]

\* CloseDisc, reporting a track without INDEX at the FILE line that closes it.
CloseDisc_here(s, l) ==
    LET pushed(d) == ReturnDisc([s EXCEPT !.disc = d, !.ln = l], d)
    IN  IF ~s.have_index
        THEN Fail(s, l, "track is missing a 'INDEX' declaration")
        ELSE pushed([s.disc EXCEPT !.tracks = Append(@, s.track)])

\* The "file" arm of the inner loop: the INDEX check, the push of the track,
\* the pushback of the FILE line at index l and the return of the disc.
CloseDisc(s, l) ==
    LET pushed(d) == ReturnDisc([s EXCEPT !.disc = d, !.ln = l], d)
    IN  IF ~s.have_index
        THEN Fail(s, s.track_ln, "track is missing a 'INDEX' declaration")
        ELSE pushed([s.disc EXCEPT !.tracks = Append(@, s.track)])

\* `have_index = true` once the "index" arm has stored its value.
HaveIndex(r) ==
    IF r.pc = "track_fields" THEN [r EXCEPT !.have_index = TRUE] ELSE r

\* One iteration of the inner loop of parse_disc's track loop.
parse_track_fields(s) ==
    LET arm(adv, t, f) ==
            CASE f = "track" -> CloseTrack([adv EXCEPT !.ln = t.ln])
              [] f = "file"  -> CloseDisc(adv, t.ln)
              [] f = "index" ->
                   HaveIndex(Settle(adv, TrackArm(adv.track, f, t.rest), t.ln, "track"))
              [] f \in TrackFields ->
                   Settle(adv, TrackArm(adv.track, f, t.rest), t.ln, "track")
              [] OTHER ->
                   Fail(adv, t.ln, "unknown field for a track: " \o t.field)
        on(item, adv) ==
            IF item = None THEN CloseTrack(adv)
            ELSE arm(adv, item[1], to_lowercase(item[1].field))
        scan(item) == on(item, Pull(s, item))
    IN  scan(next(lines, s.ln))

----------------------------------------------------------------------------
(* Inputs.                                                                 *)

\* All sequences of at most n lines of the pool P.
Sheets(P, n) == UNION {[1..k -> P] : k \in 0..n}

\* The longest cue sheet explored for the structure of discs and tracks.
MaxLines == 5

\* The lines those sheets are made of: a blank line, FILE lines with a bare
\* and a quoted path, TRACK lines and INDEX lines.
Pool ==
    { "",
      "FILE a.wav WAVE",
      "file \"b c.flac\" WAVE",
      "TRACK 01 AUDIO",
      "Track 2 AUDIO",
      "INDEX 00 00:00:00",
      "INDEX 01 00:03:00" }

\* The longest cue sheet explored for the fields of the three scopes.
MaxFieldLines == 4

\* The lines those sheets are made of: scalar fields with a quoted, a bare
\* and a missing value, comments sharing a key, and the lines that open and
\* complete a disc and a track.
FieldPool ==
    { "",
      "FILE a.wav WAVE",
      "TRACK 01 AUDIO",
      "INDEX 01 00:03:00",
      "TITLE \"A\"",
      "title B",
      "TITLE",
      "PERFORMER P",
      "REM GENRE Rock",
      "REM GENRE Pop",
      "REM DATE 1999" }

NoTimeCode == [fields |-> <<>>, input |-> "", result |-> None]

NoProbe == [at |-> 0, scope |-> "", name |-> "", rest |-> ""]

\* The state Parser::new and the head of Parser::parse leave.
\* The caller has not acted on the result of the parse.
NoCaller == [stage |-> "", msg |-> "", jobs |-> <<>>]

Fresh ==
    /\ ln = 0
    /\ pc = "global"
    /\ cue = CueDefault
    /\ disc = DiscDefault
    /\ track = TrackDefault
    /\ have_index = FALSE
    /\ track_ln = 0
    /\ err = NoError
    /\ pulled = <<>>

Init ==
    /\ lines \in Sheets(Pool, MaxLines)
    /\ Fresh
    /\ first = None
    /\ recase = "same"
    /\ tc = NoTimeCode
    /\ probe = NoProbe
    /\ caller = NoCaller

InitFields ==
    /\ lines \in Sheets(FieldPool, MaxFieldLines)
    /\ Fresh
    /\ first = None
    /\ recase = "same"
    /\ tc = NoTimeCode
    /\ probe = NoProbe
    /\ caller = NoCaller

----------------------------------------------------------------------------
(* Actions: one per loop of the parser, each one pull of the scanner.      *)

Apply(n) ==
    /\ ln' = n.ln
    /\ pc' = n.pc
    /\ cue' = n.cue
    /\ disc' = n.disc
    /\ track' = n.track
    /\ have_index' = n.have_index
    /\ track_ln' = n.track_ln
    /\ err' = n.err
    /\ pulled' = n.pulled

ParseGlobal ==
    /\ pc = "global"
    /\ Apply(parse_global(Self))
    /\ UNCHANGED <<lines, first, recase, tc, probe, caller>>

ParseDiscFile ==
    /\ pc = "disc"
    /\ \E debug \in BOOLEAN : Apply(parse_disc_file(Self, debug))
    /\ UNCHANGED <<lines, first, recase, tc, probe, caller>>

ParseDiscFields ==
    /\ pc = "disc_fields"
    /\ Apply(parse_disc_fields(Self))
    /\ UNCHANGED <<lines, first, recase, tc, probe, caller>>

ParseTrackDecl ==
    /\ pc = "tracks"
    /\ \E debug \in BOOLEAN : Apply(parse_track_decl(Self, debug))
    /\ UNCHANGED <<lines, first, recase, tc, probe, caller>>

ParseTrackFields ==
    /\ pc = "track_fields"
    /\ Apply(parse_track_fields(Self))
    /\ UNCHANGED <<lines, first, recase, tc, probe, caller>>

Next ==
    \/ ParseGlobal
    \/ ParseDiscFile
    \/ ParseDiscFields
    \/ ParseTrackDecl
    \/ ParseTrackFields

\* Sheets of FILE, TRACK and INDEX lines.
Spec == Init /\ [][Next]_vars

\* Sheets of field lines.
SpecFields == InitFields /\ [][Next]_vars

----------------------------------------------------------------------------
(* parse_index on its own: the remainders of INDEX lines, written from the *)
(* numbers of their fields, and one call of parse_index on each.           *)

\* The most fields a time specifier is written with.
MaxTimeFields == 4

\* The numbers the fields are written from.
TimeValues == {0, 2, 3, 5, 59, 250}

\* The first word of the remainder: the index number.
IndexWords == {"1", "01"}

\* The decimal digits of n.
RECURSIVE Dec(_)
Dec(n) ==
    IF n < 10 THEN At(Digits, n + 1)
    ELSE Dec(n \div 10) \o At(Digits, (n % 10) + 1)

\* A number written in decimal, with a leading zero to two digits if `pad`.
Numeral(n, pad) == IF pad /\ n < 10 THEN "0" \o Dec(n) ELSE Dec(n)

\* The fields f, in the order written, separated by colons.
RECURSIVE Colons(_, _)
Colons(f, pad) ==
    IF Len(f) = 1 THEN Numeral(f[1], pad)
    ELSE Numeral(f[1], pad) \o ":" \o Colons(Tail(f), pad)

\* The remainder of an INDEX line: the index number, a space, and the time
\* specifier, bare or in double quotes.
Written(word, f, pad, quoted) ==
    word \o " " \o
        (IF quoted THEN "\"" \o Colons(f, pad) \o "\"" ELSE Colons(f, pad))

TimeInputs ==
    {[fields |-> f, input |-> Written(w, f, pad, q), result |-> None] :
        f \in UNION {[1..k -> TimeValues] : k \in 1..MaxTimeFields},
        w \in IndexWords, pad \in BOOLEAN, q \in BOOLEAN}

InitIndex ==
    /\ lines = <<>>
    /\ Fresh
    /\ first = None
    /\ recase = "same"
    /\ tc \in TimeInputs
    /\ probe = NoProbe
    /\ caller = NoCaller

\* The "index" arm's call `parse_index(val)`.
ParseIndex ==
    /\ tc.result = None
    /\ tc.input # ""
    /\ tc' = [tc EXCEPT !.result = Some(parse_index(tc.input))]
    /\ UNCHANGED <<lines, ln, pc, cue, disc, track, have_index, track_ln, err,
                   pulled, first, recase, probe, caller>>

NextIndex == ParseIndex

\* Remainders of INDEX lines, each given to parse_index.
SpecIndex == InitIndex /\ [][NextIndex]_vars

----------------------------------------------------------------------------
(* The letter case of field names: a sheet written with its field names in *)
(* capitals is parsed, then written again with the field names in another  *)
(* letter case and parsed again.                                           *)

\* The longest cue sheet explored for the letter case of field names.
MaxCaseLines == 3

\* One well-formed line for every field name of the parser, and two names it
\* does not know; each as its field name and what follows it.
CaseFields ==
    { <<"FILE", " a.wav WAVE">>, <<"TRACK", " 01 AUDIO">>,
      <<"INDEX", " 01 00:03:00">>, <<"TITLE", " T">>, <<"PERFORMER", " P">>,
      <<"SONGWRITER", " S">>, <<"CATALOG", " 123">>, <<"ISRC", " X1">>,
      <<"FLAGS", " DCP">>, <<"REM", " K V">>, <<"TITL", " T">>,
      <<"BOGUS", " x">> }

CasePool == {f[1] \o f[2] : f \in CaseFields}

\* The ways a field name is written again.
Recasings == {"lower", "capital", "mixed"}

\* The word s from its k-th letter on in the letter case `mode`: all small,
\* a capital then small, or small and capital in turn.
RECURSIVE Recase(_, _, _)
Recase(s, k, mode) ==
    IF s = "" THEN ""
    ELSE (IF \/ mode = "lower"
             \/ mode = "capital" /\ k > 1
             \/ mode = "mixed" /\ k % 2 = 1
          THEN to_lowercase_char(Head(s))
          ELSE to_uppercase_char(Head(s))) \o Recase(Tail(s), k + 1, mode)

\* A line of the pool with its field name written in the letter case `mode`.
Recased(l, mode) ==
    LET f == CHOOSE f \in CaseFields : f[1] \o f[2] = l
    IN  Recase(f[1], 1, mode) \o f[2]

\* What a parse has ended in: the document, or the line and the message of
\* the error.
Outcome ==
    CASE pc = "done"  -> [kind |-> "ok", cue |-> cue, err |-> NoError]
      [] pc = "error" -> [kind |-> "err", cue |-> CueDefault, err |-> err]
      [] OTHER        -> [kind |-> "panic", cue |-> CueDefault, err |-> NoError]

\* Parser::new: the cursor at line 0, and the locals of parse and parse_disc
\* before their first use.
Parser_new ==
    [ln |-> 0, pc |-> "global", cue |-> CueDefault, disc |-> DiscDefault,
     track |-> TrackDefault, have_index |-> FALSE, track_ln |-> 0,
     err |-> NoError, pulled |-> <<>>]

InitCase ==
    /\ lines \in Sheets(CasePool, MaxCaseLines)
    /\ Fresh
    /\ first = None
    /\ recase \in Recasings
    /\ tc = NoTimeCode
    /\ probe = NoProbe
    /\ caller = NoCaller

\* The same sheet, its field names written in the other letter case, is
\* given to `parse` once the first parse has ended.
Reparse ==
    /\ pc \in {"done", "error", "panic"}
    /\ first = None
    /\ recase \in Recasings
    /\ first' = Some([outcome |-> Outcome, lines |-> lines])
    /\ lines' = [i \in DOMAIN lines |-> Recased(lines[i], recase)]
    /\ Apply(Parser_new)
    /\ UNCHANGED <<recase, tc, probe, caller>>

NextCase ==
    \/ Next
    \/ Reparse

\* Sheets parsed twice, in two letter cases of their field names.
SpecCase == InitCase /\ [][NextCase]_vars

----------------------------------------------------------------------------
(* Values: sheets written around one line, the probe, whose remainder is   *)
(* every short text over a few characters; the lines around it are         *)
(* well-formed and put the probe in its scope.                             *)

\* The longest text written behind the field name of a probe.
MaxTextLen == 5

\* The longest text written behind the field names that share their parsing
\* with a field probed with the longer texts.
MaxShortLen == 2

\* A digit, a letter that is an escape, the double quote, the backslash and
\* the space.
TextAlphabet == {"1", "n", "\"", "\\", " "}

\* The texts of at most n characters.
RECURSIVE Texts(_)
Texts(n) ==
    IF n = 0 THEN {""}
    ELSE {""} \cup {c \o s : c \in TextAlphabet, s \in Texts(n - 1)}

\* The remainders Parser::next hands over: nothing, or a space and a text.
Remainders(n) == {""} \cup {" " \o s : s \in Texts(n)}

\* The remainders of TRACK lines that carry a number token.
NumberRemainders ==
    {" 0", " 00", " 0 AUDIO", " +0", " 1 AUDIO", " 01 AUDIO", " 10", " +1",
     " -1", " 1.0", " \"2\" AUDIO", " \"0\"", " x AUDIO"}

\* The remainders that wrap each escape in double quotes: the three escapes
\* with a mapping, and the letter, backslash and double quote without one.
EscapeRemainders ==
    {" \"\\" \o c \o "\"" : c \in {"n", "t", "r", "x", "\\", "\""}} \cup
    {" \"a\\tb\\rc\""}

\* The remainders whose first word holds a character of two bytes: as its
\* last character, before its last character, escaped, and inside quotes.
WideRemainders ==
    {" #", " # WAVE", " 1# x", " #1 WAVE", " \\#", " \"#\" WAVE", " 1 #"}

\* The most fields a time specifier of a probe is written with.
MaxProbeFields == 5

\* The fields a time specifier of a probe is written from: numerals, the
\* empty field and a field that is no number.
ProbeFields == {"1", "07", "", "a"}

\* A time specifier: the fields f, in the order written, separated by colons.
RECURSIVE Specifier(_)
Specifier(f) ==
    IF Len(f) = 1 THEN f[1] ELSE f[1] \o ":" \o Specifier(Tail(f))

\* The remainders of INDEX lines: without an index number, without a time
\* specifier, and with the specifiers of 1 to MaxProbeFields fields, bare or
\* in double quotes.
IndexRemainders ==
    {"", " ", " 01", " 01 "} \cup
    {" 01 " \o Specifier(f) :
        f \in UNION {[1..k -> ProbeFields] : k \in 1..MaxProbeFields}} \cup
    {" 01 \"" \o Specifier(f) \o "\"" :
        f \in UNION {[1..k -> ProbeFields] : k \in 1..2}}

\* The scalar fields of each scope, in capitals.
ScalarNames ==
    [Global |-> {"TITLE", "PERFORMER", "CATALOG", "SONGWRITER"},
     Disc   |-> {"TITLE", "PERFORMER", "SONGWRITER", "CATALOG"},
     Track  |-> {"TITLE", "PERFORMER", "SONGWRITER", "ISRC"}]

\* The fields probed with the longer texts: one scalar field or REM in each
\* scope, the FILE line and the TRACK line.
LongProbes ==
    {<<"Global", "TITLE">>, <<"Disc", "REM">>, <<"Track", "ISRC">>,
     <<"File", "FILE">>, <<"Decl", "TRACK">>}

\* The other scalar fields and REM of each scope.
ShortProbes ==
    {sn \in {"Global", "Disc", "Track"} \X
            {"TITLE", "PERFORMER", "CATALOG", "SONGWRITER", "ISRC", "REM"} :
        sn[2] \in ScalarNames[sn[1]] \cup {"REM"}} \ LongProbes

\* The probes: the line index, the scope, the field name and the remainder.
Probes ==
    {[at |-> 0, scope |-> sn[1], name |-> sn[2], rest |-> r] :
        sn \in LongProbes, r \in Remainders(MaxTextLen)} \cup
    {[at |-> 0, scope |-> sn[1], name |-> sn[2], rest |-> r] :
        sn \in ShortProbes, r \in Remainders(MaxShortLen)} \cup
    {[at |-> 0, scope |-> "Global", name |-> "TITLE", rest |-> r] :
        r \in EscapeRemainders} \cup
    {[at |-> 0, scope |-> sn[1], name |-> sn[2], rest |-> r] :
        sn \in {<<"File", "FILE">>, <<"Decl", "TRACK">>, <<"Disc", "REM">>},
        r \in WideRemainders} \cup
    {[at |-> 0, scope |-> "Decl", name |-> "TRACK", rest |-> r] :
        r \in NumberRemainders} \cup
    {[at |-> 0, scope |-> "Track", name |-> "INDEX", rest |-> r] :
        r \in IndexRemainders}

\* The well-formed lines before the probe of each scope.
LinesBefore ==
    [Global |-> <<>>,
     File   |-> <<>>,
     Disc   |-> <<"FILE a.wav WAVE">>,
     Decl   |-> <<"FILE a.wav WAVE">>,
     Track  |-> <<"FILE a.wav WAVE", "TRACK 01 AUDIO", "INDEX 00 00:00:00">>]

\* The well-formed lines behind the probe of each scope: those that let the
\* parse end with success.
LinesBehind ==
    [Global |-> <<"FILE a.wav WAVE">>,
     File   |-> <<"TRACK 01 AUDIO", "INDEX 00 00:00:00">>,
     Disc   |-> <<>>,
     Decl   |-> <<"INDEX 00 00:00:00">>,
     Track  |-> <<>>]

\* The probe p at the index of its line in its sheet.
Placed(p) == [p EXCEPT !.at = Len(LinesBefore[p.scope])]

\* The sheet written around the probe p.
SheetOf(p) == LinesBefore[p.scope] \o <<p.name \o p.rest>> \o LinesBehind[p.scope]

InitProbe ==
    /\ probe \in {Placed(p) : p \in Probes}
    /\ lines = SheetOf(probe)
    /\ caller = NoCaller
    /\ Fresh
    /\ first = None
    /\ recase = "same"
    /\ tc = NoTimeCode

\* Sheets written around one probed line.
SpecProbe == InitProbe /\ [][Next]_vars

----------------------------------------------------------------------------
(* The caller: cue::parse renders the error of a failed parse with the     *)
(* line it names, and Job::new_jobs turns a parsed document into one job   *)
(* for each disc.                                                          *)

\* u32::ilog10: the number of decimal digits less one; it panics on 0.
RECURSIVE Log10(_)
Log10(n) == IF n < 10 THEN 0 ELSE 1 + Log10(n \div 10)

ilog10(n) == IF n = 0 THEN Panic ELSE Ok(Log10(n))

\* format!("{number:0width$}"): the decimal digits, zero-padded to the width.
RECURSIVE Padded(_, _)
Padded(s, width) == IF Len(s) >= width THEN s ELSE Padded("0" \o s, width)

\* `flat_map(|d| d.tracks.iter())` over the discs of the document.
flat_tracks(c) ==
    UNION {{c.discs[d].tracks[t] : t \in 1..Len(c.discs[d].tracks)} :
              d \in 1..Len(c.discs)}

\* What sort_unstable_by_key(|t| t.index) can leave: the tracks in every
\* order that ascends by index; tracks of one index may come in any order.
sort_unstable_by_key(tracks) ==
    LET n == Len(tracks)
        orders == {p \in [1..n -> 1..n] :
                      /\ \A i, j \in 1..n : i # j => p[i] # p[j]
                      /\ \A i, j \in 1..n : i < j =>
                             tracks[p[i]].index <= tracks[p[j]].index}
    IN  {[i \in 1..n |-> tracks[p[i]]] : p \in orders}

\* The cut of the i-th track of the sorted tracks: its padded number, its own
\* offset and the offset of the track after it, if there is one.
Cut(tracks, i, width) ==
    [no   |-> Padded(Dec(tracks[i].number), width),
     from |-> tracks[i].index,
     to   |-> IF i < Len(tracks) THEN Some(tracks[i + 1].index) ELSE None]

\* The job of one disc whose tracks are sorted.
JobOf(d, tracks, width) ==
    [input |-> d.file,
     new_files |-> [i \in 1..Len(tracks) |-> Cut(tracks, i, width)]]

\* The jobs of the discs, one for each disc in order, for every order the
\* sort can leave.
RECURSIVE JobsOf(_, _)
JobsOf(discs, width) ==
    IF discs = <<>> THEN {<<>>}
    ELSE {<<JobOf(Head(discs), ts, width)>> \o js :
             ts \in sort_unstable_by_key(Head(discs).tracks),
             js \in JobsOf(Tail(discs), width)}

\* Iterator::max().unwrap_or(1) over the track numbers.
max_or_1(numbers) == IF numbers = {} THEN 1 ELSE Max(numbers)

\* Job::new_jobs behind its check for tracks: the width of the largest track
\* number, where ilog10 panics on 0, and the jobs.
build_jobs(c) ==
    LET built(w) ==
            IF w.tag # "ok" THEN {[stage |-> "panic", msg |-> "", jobs |-> <<>>]}
            ELSE {[stage |-> "jobs", msg |-> "", jobs |-> js] :
                     js \in JobsOf(c.discs, w.val + 1)}
    IN  built(ilog10(max_or_1({t.number : t \in flat_tracks(c)})))

\* new_jobs without its check for tracks.
new_jobs_unchecked(c) == build_jobs(c)

\* The outcomes of Job::new_jobs on the document c: the error of a document
\* without a track, or what is built behind the check.
new_jobs(c) ==
    IF flat_tracks(c) = {}
    THEN {[stage |-> "error", msg |-> "cuesheet has no tracks", jobs |-> <<>>]}
    ELSE build_jobs(c)

\* cue::parse on the Err of Parser::parse: the message with the line the error
\* names, or the panic of `lines[e.ln]` out of range.
render(ls, e) ==
    IF e.ln >= Len(ls) THEN [stage |-> "panic", msg |-> "", jobs |-> <<>>]
    ELSE [stage |-> "error",
          msg |-> "line " \o Dec(e.ln + 1) \o ": " \o e.msg \o "\n> " \o ls[e.ln + 1],
          jobs |-> <<>>]

\* cue::parse maps the error of a failed parse.
CueParse ==
    /\ pc = "error"
    /\ caller = NoCaller
    /\ caller' = render(lines, err)
    /\ UNCHANGED <<lines, ln, pc, cue, disc, track, have_index, track_ln, err,
                   pulled, first, recase, tc, probe>>

\* Job::new_jobs on the document of a successful parse.
NewJobs ==
    /\ pc = "done"
    /\ caller = NoCaller
    /\ caller' \in new_jobs(cue)
    /\ UNCHANGED <<lines, ln, pc, cue, disc, track, have_index, track_ln, err,
                   pulled, first, recase, tc, probe>>

NextCaller == Next \/ CueParse \/ NewJobs

\* The longest cue sheet handed to the caller.
MaxCallerLines == 4

\* The lines the caller's sheets are made of: those of Pool, TRACK lines
\* with the numbers 0 and 10, and a FILE line whose quoted path is not closed.
CallerPool == Pool \cup {"TRACK 0 AUDIO", "TRACK 10 AUDIO", "FILE \""}

InitCaller ==
    /\ \/ /\ lines \in Sheets(CallerPool, MaxCallerLines)
          /\ probe = NoProbe
       \/ /\ probe \in {Placed(p) : p \in Probes}
          /\ lines = SheetOf(probe)
    /\ caller = NoCaller
    /\ Fresh
    /\ first = None
    /\ recase = "same"
    /\ tc = NoTimeCode

\* The parse of a sheet and what its caller makes of the result.
SpecCaller == InitCaller /\ [][NextCaller]_vars

----------------------------------------------------------------------------
(* The structure of the input, read off the lines themselves.  Line        *)
(* indices are 0-based, as in the parser.                                  *)

LineIdx == 0..(Len(lines) - 1)

\* The field name of a line in lower case; "" for a blank line.
FieldOf(l) ==
    LET w == next_word(l)
    IN  IF w = None THEN "" ELSE to_lowercase(w[1].word)

\* What follows the field name on a line.
RestOf(l) ==
    LET w == next_word(l)
    IN  IF w = None THEN "" ELSE w[1].rest

\* Every line of every sheet explored, with its field name and remainder.
AllLines ==
    Pool \cup FieldPool \cup CasePool \cup CallerPool \cup
        {Recased(l, mode) : l \in CasePool, mode \in Recasings}

Fields == [l \in AllLines |-> FieldOf(l)]

Rests == [l \in AllLines |-> RestOf(l)]

FieldAt(i) == Fields[lines[i + 1]]

RestAt(i) == Rests[lines[i + 1]]

FileLines == {i \in LineIdx : FieldAt(i) = "file"}

TrackLines == {i \in LineIdx : FieldAt(i) = "track"}

IndexLines == {i \in LineIdx : FieldAt(i) = "index"}

\* The elements of a set of numbers in increasing order.
RECURSIVE Ascending(_)
Ascending(S) == IF S = {} THEN <<>> ELSE <<Min(S)>> \o Ascending(S \ {Min(S)})

\* Where the disc opened by the FILE line f ends: the next FILE line, or the
\* end of the input.
DiscEnd(f) == Min({j \in FileLines : j > f} \cup {Len(lines)})

\* Where the track opened by the TRACK line t ends: the next TRACK or FILE
\* line, or the end of the input.
TrackEnd(t) == Min({j \in FileLines \cup TrackLines : j > t} \cup {Len(lines)})

\* The TRACK lines of the disc opened by the FILE line f.
TracksOf(f) == {t \in TrackLines : f < t /\ t < DiscEnd(f)}

\* The INDEX lines of the track opened by the TRACK line t.
IndexesOf(t) == {i \in IndexLines : t < i /\ i < TrackEnd(t)}

\* What the lines of the pools declare, as a reader of the sheet takes them:
\* the path of a FILE line, the number of a TRACK line, and the time of an
\* INDEX line in milliseconds (hours:minutes:seconds:milliseconds from the
\* right).
WrittenPath ==
    ("FILE a.wav WAVE" :> "a.wav") @@ ("file \"b c.flac\" WAVE" :> "b c.flac")

DeclaredNumber == ("TRACK 01 AUDIO" :> 1) @@ ("Track 2 AUDIO" :> 2)

TimeCode == ("INDEX 00 00:00:00" :> 0) @@ ("INDEX 01 00:03:00" :> 3000)

Running == pc \notin {"done", "error", "panic"}

InDisc == pc \in {"disc_fields", "tracks", "track_fields"}

\* The discs built so far: those pushed, then the one being parsed.
DiscsBuilt == cue.discs \o (IF InDisc THEN <<disc>> ELSE <<>>)

\* The tracks built so far of the k-th disc built.
TracksBuilt(k) ==
    DiscsBuilt[k].tracks \o
        (IF InDisc /\ k = Len(DiscsBuilt) /\ pc = "track_fields"
         THEN <<track>> ELSE <<>>)

\* The FILE lines and the TRACK lines the parser has consumed.
FilesRead == Ascending({f \in FileLines : f < ln})

TracksRead(f) == Ascending({t \in TracksOf(f) : t < ln})

----------------------------------------------------------------------------
(* C1: while the parse has not failed, and so when it succeeds, the discs  *)
(* built are the FILE lines read, in order, each with the path written on  *)
(* its line, and the tracks of each disc are the TRACK lines read between  *)
(* its FILE line and the next, in order, each with its declared number; a  *)
(* sheet with one FILE, one TRACK and one INDEX line gives one disc with   *)
(* one track whose offset is the time of that INDEX line.                  *)
C1_DiscsAndTracksFollowLines ==
    /\ pc \notin {"error", "panic"} =>
          /\ Len(DiscsBuilt) = Len(FilesRead)
          /\ \A k \in 1..Len(DiscsBuilt) :
                /\ DiscsBuilt[k].file = WrittenPath[lines[FilesRead[k] + 1]]
                /\ Len(TracksBuilt(k)) = Len(TracksRead(FilesRead[k]))
                /\ \A j \in 1..Len(TracksBuilt(k)) :
                      TracksBuilt(k)[j].number =
                          DeclaredNumber[lines[TracksRead(FilesRead[k])[j] + 1]]
    /\ (/\ pc = "done"
        /\ Cardinality(FileLines) = 1
        /\ Cardinality(TrackLines) = 1
        /\ Cardinality(IndexLines) = 1) =>
          /\ Len(cue.discs) = 1
          /\ Len(cue.discs[1].tracks) = 1
          /\ \A i \in IndexLines :
                cue.discs[1].tracks[1].index = TimeCode[lines[i + 1]]

\* A sheet parsed to the end whose one disc holds the tracks 1 and 2.
C1_Witness ==
    /\ pc = "done"
    /\ Len(cue.discs) = 1
    /\ Len(cue.discs[1].tracks) = 2
    /\ cue.discs[1].tracks[1].number = 1
    /\ cue.discs[1].tracks[2].number = 2

----------------------------------------------------------------------------
(* The tracks built, each with the TRACK line that opened it.              *)

\* The TRACK line that opened the j-th track built of the k-th disc built.
TrackLineOf(k, j) == TracksRead(FilesRead[k])[j]

\* The pairs <<k, j>> of the tracks built.
BuiltTracks ==
    {kj \in (1..Len(lines)) \X (1..Len(lines)) :
        kj[1] <= Len(DiscsBuilt) /\ kj[2] <= Len(TracksBuilt(kj[1]))}

\* The INDEX lines read so far in the scope of the TRACK line t.
IndexesRead(t) == {i \in IndexesOf(t) : i < ln}

\* The times of the INDEX lines read so far in the scope of the TRACK line t.
TimesRead(t) == {TimeCode[lines[i + 1]] : i \in IndexesRead(t)}

----------------------------------------------------------------------------
(* C2: while the parse has not failed, and so when it succeeds, the offset *)
(* of every track built is the largest of the times of the INDEX lines     *)
(* read in its scope, in whatever order they come (and 0 before any was    *)
(* read).                                                                  *)
C2_OffsetIsMaximum ==
    pc \notin {"error", "panic"} =>
        \A kj \in BuiltTracks :
            TracksBuilt(kj[1])[kj[2]].index =
                IF TimesRead(TrackLineOf(kj[1], kj[2])) = {} THEN 0
                ELSE Max(TimesRead(TrackLineOf(kj[1], kj[2])))

\* A sheet parsed to the end with a track whose INDEX lines come with the
\* larger time first, and whose offset is that larger time.
C2_Witness ==
    /\ pc = "done"
    /\ \E kj \in BuiltTracks :
          /\ TracksBuilt(kj[1])[kj[2]].index = 3000
          /\ \E a, b \in IndexesRead(TrackLineOf(kj[1], kj[2])) :
                /\ a < b
                /\ lines[a + 1] = "INDEX 01 00:03:00"
                /\ lines[b + 1] = "INDEX 00 00:00:00"

----------------------------------------------------------------------------
(* C3 concerns the value parse_index returns.                              *)

\* The weight of each field, rightmost field first: milliseconds, seconds,
\* minutes, hours.
Weights == <<1, 1000, 60000, 3600000>>

\* The sum of the fields f, given in the order written, each times the weight
\* of its place from the right.
RECURSIVE WeightedSum(_)
WeightedSum(f) ==
    IF f = <<>> THEN 0
    ELSE Head(f) * Weights[Len(f)] + WeightedSum(Tail(f))

\* C3: for a time specifier of 1 to 4 colon-separated decimal fields behind
\* the index number, parse_index returns the sum of the fields, each times
\* the weight of its place from the right (1, 1000, 60000, 3600000); so
\* "1 00:02:03" gives 2003 and "1 5:250" gives 5250.
C3_WeightedSum ==
    (tc.result # None /\ Len(tc.fields) \in 1..4) =>
        /\ tc.result = Some(Ok(WeightedSum(tc.fields)))
        /\ tc.input = "1 00:02:03" => tc.result = Some(Ok(2003))
        /\ tc.input = "1 5:250" => tc.result = Some(Ok(5250))

\* parse_index has returned 2003 for "1 00:02:03".
C3_Witness ==
    /\ tc.input = "1 00:02:03"
    /\ tc.fields = <<0, 2, 3>>
    /\ tc.result = Some(Ok(2003))

----------------------------------------------------------------------------
(* C4 concerns the tracks whose scope holds the line INDEX 00 00:00:00     *)
(* followed by the line INDEX 01 00:03:00 and no other INDEX line.         *)

\* The scope of the TRACK line t has been read to its end and holds exactly
\* those two INDEX lines, in that order.
ZeroThenThree(t) ==
    /\ IndexesRead(t) = IndexesOf(t)
    /\ \E a, b \in IndexesOf(t) :
          /\ a < b
          /\ IndexesOf(t) = {a, b}
          /\ lines[a + 1] = "INDEX 00 00:00:00"
          /\ lines[b + 1] = "INDEX 01 00:03:00"

\* C4 as stated: such a track is stored with an offset of 180000 ms.
C4_AsStated ==
    pc \notin {"error", "panic"} =>
        \A kj \in BuiltTracks :
            ZeroThenThree(TrackLineOf(kj[1], kj[2])) =>
                TracksBuilt(kj[1])[kj[2]].index = 180000

\* C4, amended: a track whose scope holds INDEX 00 00:00:00 followed by
\* INDEX 01 00:03:00, and no other INDEX line, is stored with an offset of
\* 3000 ms: the fields of 00:03:00 weigh 60000, 1000 and 1 from the left.
C4_OffsetIs3000 ==
    pc \notin {"error", "panic"} =>
        \A kj \in BuiltTracks :
            ZeroThenThree(TrackLineOf(kj[1], kj[2])) =>
                TracksBuilt(kj[1])[kj[2]].index = 3000

\* A sheet parsed to the end with such a track.
C4_Witness ==
    /\ pc = "done"
    /\ \E kj \in BuiltTracks : ZeroThenThree(TrackLineOf(kj[1], kj[2]))

----------------------------------------------------------------------------
(* C5 concerns the step that closes a track.                               *)

\* The TRACK line of the track being parsed.
CurrentTrackLine == Max({t \in TrackLines : t < ln})

\* The index of the next line the scanner will emit, or the number of lines
\* when only blank lines are left.
NextEmitted == Min({i \in LineIdx : i >= ln /\ FieldAt(i) # ""} \cup {Len(lines)})

\* The track being parsed is about to be closed: by a TRACK line, by a FILE
\* line, or by the end of the input.
ClosedBy(what) ==
    /\ pc = "track_fields"
    /\ CASE what = "end" -> NextEmitted = Len(lines)
         [] OTHER -> NextEmitted < Len(lines) /\ FieldAt(NextEmitted) = what

MissingIndex(l) == [ln |-> l, msg |-> "track is missing a 'INDEX' declaration"]

\* C5: a step that closes a track in whose scope no INDEX line was read --
\* at a following TRACK line, at a following FILE line, or at the end of the
\* input -- fails the parse with the missing-INDEX error, at the line of the
\* track's own TRACK declaration.
C5_MissingIndexAtTrackLine ==
    [][\A what \in {"track", "file", "end"} :
          (ClosedBy(what) /\ IndexesRead(CurrentTrackLine) = {}) =>
              (pc' = "error" /\ err' = MissingIndex(CurrentTrackLine))]_vars

\* A parse failed with the missing-INDEX error at a TRACK line, where the
\* line that closed the track is a later FILE line.
C5_Witness ==
    /\ pc = "error"
    /\ err.ln \in TrackLines
    /\ err = MissingIndex(err.ln)
    /\ pulled # <<>>
    /\ FieldAt(pulled[Len(pulled)]) = "file"
    /\ err.ln < pulled[Len(pulled)]

----------------------------------------------------------------------------
(* The field lines of the pool, as a reader of the sheet takes them.       *)

\* What each well-formed field line declares: the field, the key of a
\* comment, and the value.
Declares ==
    ("TITLE \"A\"" :> [name |-> "title", key |-> "", val |-> "A"]) @@
    ("title B" :> [name |-> "title", key |-> "", val |-> "B"]) @@
    ("PERFORMER P" :> [name |-> "performer", key |-> "", val |-> "P"]) @@
    ("REM GENRE Rock" :> [name |-> "rem", key |-> "GENRE", val |-> "Rock"]) @@
    ("REM GENRE Pop" :> [name |-> "rem", key |-> "GENRE", val |-> "Pop"]) @@
    ("REM DATE 1999" :> [name |-> "rem", key |-> "DATE", val |-> "1999"])

\* The line i is a well-formed field of the document scope.
WellFormedGlobal(i) ==
    /\ lines[i + 1] \in DOMAIN Declares
    /\ Declares[lines[i + 1]].name \in
          {"rem", "title", "performer", "catalog", "songwriter"}

\* Every line before the line i is blank or a well-formed field of the
\* document scope.
GlobalUpTo(i) ==
    \A j \in LineIdx : j < i => (FieldAt(j) = "" \/ WellFormedGlobal(j))

TrackBeforeAnyFile(l) == [ln |-> l, msg |-> "'TRACK' declared before any 'FILE'"]

MissingFile == [ln |-> 0, msg |-> "cue sheet is missing a 'FILE' declaration"]

----------------------------------------------------------------------------
(* C6: when the first TRACK line comes before any FILE line, behind        *)
(* nothing but blank lines and well-formed fields of the document scope,   *)
(* the parse reads on without failing up to that TRACK line, and from      *)
(* there on has failed with the TRACK-before-FILE error at that line.      *)
C6_TrackBeforeFile ==
    \A t \in TrackLines :
        (/\ \A u \in TrackLines : t <= u
         /\ \A f \in FileLines : t < f
         /\ GlobalUpTo(t)) =>
            IF ln > t THEN pc = "error" /\ err = TrackBeforeAnyFile(t)
            ELSE pc = "global"

\* A parse failed with the TRACK-before-FILE error at a TRACK line behind a
\* title of the document.
C6_Witness ==
    /\ pc = "error"
    /\ err.ln \in TrackLines
    /\ err = TrackBeforeAnyFile(err.ln)
    /\ cue.title # None
    /\ FileLines # {}

----------------------------------------------------------------------------
(* C7: on a sheet without a FILE line, made of blank lines and well-formed *)
(* fields of the document scope only (the empty sheet is one), the parse   *)
(* reads the document scope to the end of the input and then has failed    *)
(* with the missing-FILE error at line 0.                                  *)
C7_MissingFileAtLineZero ==
    (FileLines = {} /\ GlobalUpTo(Len(lines))) =>
        \/ pc = "global"
        \/ pc = "error" /\ err = MissingFile /\ ln = Len(lines)

\* A parse of a sheet that sets a title and a comment failed with the
\* missing-FILE error.
C7_Witness ==
    /\ pc = "error"
    /\ err = MissingFile
    /\ cue.title # None
    /\ cue.rems # <<>>
    /\ FileLines = {}

----------------------------------------------------------------------------
(* The document built so far, scope by scope.                              *)

\* The scalar fields and the comment map of the document.
DocFields == [cue EXCEPT !.discs = <<>>]

\* The scalar fields and the comment map of the k-th disc built.
DiscFieldsOf(k) == [DiscsBuilt[k] EXCEPT !.tracks = <<>>]

\* The document built so far: its own fields, and for each disc built its
\* fields and its tracks.
Doc ==
    [fields |-> DocFields,
     discs  |-> [k \in 1..Len(DiscsBuilt) |->
                    [fields |-> DiscFieldsOf(k), tracks |-> TracksBuilt(k)]]]

\* The scope the line i lies in: the document before the first FILE line, a
\* disc from its FILE line on, a track from its TRACK line on.
LineScope(i) ==
    IF \A f \in FileLines : i < f THEN "document"
    ELSE IF \A t \in TracksOf(Max({f \in FileLines : f <= i})) : i < t
         THEN "disc"
    ELSE "track"

\* This step handles a line, and the parse goes on.
Handles(i) ==
    /\ i = NextEmitted
    /\ i < Len(lines)
    /\ pc \notin {"done", "error", "panic"}
    /\ pc' \notin {"error", "panic"}

\* All discs but the last, and all tracks of the last disc but its last, are
\* left as they were.
EarlierLeftAlone(old, new) ==
    /\ Len(new.discs) >= Len(old.discs)
    /\ \A k \in 1..Len(old.discs) :
          /\ k < Len(old.discs) => new.discs[k] = old.discs[k]
          /\ Len(new.discs[k].tracks) >= Len(old.discs[k].tracks)
          /\ \A j \in 1..(Len(old.discs[k].tracks) - 1) :
                new.discs[k].tracks[j] = old.discs[k].tracks[j]

\* A disc or a track added by the step starts with no field set but its file
\* or its number.
StartsEmpty(old, new) ==
    /\ Len(new.discs) > Len(old.discs) =>
          /\ [new.discs[Len(new.discs)].fields EXCEPT !.file = ""] = DiscDefault
          /\ new.discs[Len(new.discs)].tracks = <<>>
    /\ \A k \in 1..Len(old.discs) :
          Len(new.discs[k].tracks) > Len(old.discs[k].tracks) =>
              [new.discs[k].tracks[Len(new.discs[k].tracks)] EXCEPT !.number = 0]
                  = TrackDefault

\* What a step that handles the line i may change, by the scope of the line.
OnlyOwnScope(i, old, new) ==
    /\ EarlierLeftAlone(old, new)
    /\ StartsEmpty(old, new)
    /\ LineScope(i) = "document" => new.discs = old.discs
    /\ LineScope(i) = "disc" =>
          /\ new.fields = old.fields
          /\ \A k \in 1..Len(old.discs) : new.discs[k].tracks = old.discs[k].tracks
    /\ LineScope(i) = "track" =>
          /\ new.fields = old.fields
          /\ \A k \in 1..Len(old.discs) : new.discs[k].fields = old.discs[k].fields
    /\ (FileLines # {} /\ i >= Min(FileLines)) => new.fields = old.fields
    /\ \A k \in 1..Len(old.discs) :
          (\E t \in TracksOf(FilesRead[k]) : i >= t) =>
              new.discs[k].fields = old.discs[k].fields

\* C8: a step that handles a line changes the fields of the scope the line
\* lies in and nothing else: a line before the first FILE leaves every disc
\* and track alone, a line of a disc before its first TRACK leaves the
\* document's fields and every track alone, a line of a track leaves the
\* document's and every disc's fields alone; the document's fields are left
\* alone by every line from the first FILE on, and a disc's fields by every
\* line from its first TRACK on; a new disc or track starts with no field
\* taken over from another scope.
C8_OnlyOwnScope ==
    [][\A i \in LineIdx : Handles(i) => OnlyOwnScope(i, Doc, Doc')]_vars

\* A document whose title, a disc without title and its track with another
\* title stand side by side.
C8_Witness ==
    /\ pc = "track_fields"
    /\ cue.title = Some("B")
    /\ disc.title = None
    /\ track.title = Some("A")

----------------------------------------------------------------------------
(* C9 concerns the lines of one scope that declare the same field.         *)

\* The lines of the document scope, of the disc opened by the FILE line f
\* before its first TRACK, and of the track opened by the TRACK line t.
DocLines == {i \in LineIdx : \A f \in FileLines : i < f}

DiscLines(f) == {i \in LineIdx : f < i /\ i < Min(TracksOf(f) \cup {DiscEnd(f)})}

TrackScope(t) == {i \in LineIdx : t < i /\ i < TrackEnd(t)}

\* The value of the last line read among the lines S that declares the
\* scalar field `name`, if there is one.
LastValue(S, name) ==
    LET L == {i \in S : i < ln /\ FieldAt(i) = name}
    IN  IF L = {} THEN None ELSE Some(Declares[lines[Max(L) + 1]].val)

\* For each key of the REM lines read among the lines S, the value of the
\* last of them with that key.
LastRems(S) ==
    LET R == {i \in S : i < ln /\ FieldAt(i) = "rem"}
        keyOf(i) == Declares[lines[i + 1]].key
    IN  [k \in {keyOf(i) : i \in R} |->
            Declares[lines[Max({i \in R : keyOf(i) = k}) + 1]].val]

\* The scalar fields `names` and the comment map of the scope `scope` are
\* those of the last lines read among S.
LastWins(scope, S, names) ==
    /\ \A name \in names : scope[name] = LastValue(S, name)
    /\ scope.rems = LastRems(S)

\* C9: declaring a field again in the same scope is not an error -- a step
\* that handles a well-formed TITLE, PERFORMER or REM line stays in its
\* scope -- and while the parse has not failed each scalar field of the
\* document, of every disc and of every track holds the value of the last
\* line read in that scope that declares it, and each comment map holds under
\* each key the value of the last REM line read in that scope with that key.
C9_LastDeclarationWins ==
    /\ [](pc \notin {"error", "panic"} =>
            /\ LastWins(cue, DocLines, {"title", "performer", "songwriter", "catalog"})
            /\ \A k \in 1..Len(DiscsBuilt) :
                  LastWins(DiscsBuilt[k], DiscLines(FilesRead[k]),
                           {"title", "performer", "songwriter", "catalog"})
            /\ \A kj \in BuiltTracks :
                  LastWins(TracksBuilt(kj[1])[kj[2]],
                           TrackScope(TrackLineOf(kj[1], kj[2])),
                           {"title", "performer", "songwriter", "isrc"}))
    /\ [][(/\ pc \in {"global", "disc_fields", "track_fields"}
           /\ NextEmitted < Len(lines)
           /\ lines[NextEmitted + 1] \in DOMAIN Declares) => pc' = pc]_vars

\* A track whose title was declared twice holds the second value, and a
\* comment map whose key was declared twice holds the second value.
C9_Witness ==
    /\ pc = "track_fields"
    /\ \E a, b \in TrackScope(CurrentTrackLine) :
          /\ a < b /\ b < ln
          /\ lines[a + 1] = "TITLE \"A\""
          /\ lines[b + 1] = "title B"
    /\ track.title = Some("B")

----------------------------------------------------------------------------
(* C10 concerns the field name of the line a step handles, the scope the   *)
(* line lies in, and the outcomes of the two parses of a sheet.            *)

\* The sheet as first written, with its field names in capitals.
OriginalLines == IF first = None THEN lines ELSE first[1].lines

\* The field name of each line of the pool, in capitals.
CaseName == [l \in CasePool |-> (CHOOSE f \in CaseFields : f[1] \o f[2] = l)[1]]

NameAt(i) == CaseName[OriginalLines[i + 1]]

\* The scope in which the line i is read as a field: Global before the first
\* FILE line, Track behind a TRACK line of the last FILE line, Disc otherwise.
CaseScope(i) ==
    LET files == {j \in LineIdx : j < i /\ NameAt(j) = "FILE"}
    IN  IF files = {} THEN "Global"
        ELSE IF \E j \in LineIdx : Max(files) < j /\ j < i /\ NameAt(j) = "TRACK"
             THEN "Track"
        ELSE "Disc"

\* The field names each scope accepts.
Accepts ==
    [Global |-> {"REM", "TITLE", "PERFORMER", "CATALOG", "SONGWRITER", "FILE"},
     Disc   |-> {"REM", "TITLE", "PERFORMER", "SONGWRITER", "CATALOG", "FILE",
                 "TRACK"},
     Track  |-> {"INDEX", "TITLE", "PERFORMER", "SONGWRITER", "ISRC", "FLAGS",
                 "REM", "TRACK", "FILE"}]

\* The unknown-field messages, up to the field name they end with.
UnknownFieldMessages ==
    {"unknown field for a disc: ", "unknown field for disc: ",
     "unknown field for a track: "}

\* The message m without the field name an unknown-field message ends with.
MessageKind(m) ==
    IF \E p \in UnknownFieldMessages : Len(m) >= Len(p) /\ Upto(m, Len(p)) = p
    THEN CHOOSE p \in UnknownFieldMessages : Len(m) >= Len(p) /\ Upto(m, Len(p)) = p
    ELSE m

IsUnknownField(m) == MessageKind(m) \in UnknownFieldMessages

\* Two outcomes are the same document, or errors of the same kind at the
\* same line.
SameOutcome(a, b) ==
    /\ a.kind = b.kind
    /\ a.cue = b.cue
    /\ a.err.ln = b.err.ln
    /\ MessageKind(a.err.msg) = MessageKind(b.err.msg)

\* The second parse of a sheet, in another letter case of its field names,
\* ends as the first parse did.
CaseKeepsOutcome ==
    (first # None /\ pc \in {"done", "error", "panic"}) =>
        SameOutcome(Outcome, first[1].outcome)

\* This step reads the line i as a field of the scope it lies in.
ReadsField(i) ==
    /\ pc \in {"global", "disc_fields", "track_fields"}
    /\ i = NextEmitted
    /\ i < Len(lines)

\* A field name of the scope's set never gives an unknown-field error.
InsideSetIsKnown ==
    \A i \in LineIdx :
        (ReadsField(i) /\ NameAt(i) \in Accepts[CaseScope(i)]) =>
            ~(pc' = "error" /\ IsUnknownField(err'.msg))

\* C10 as stated: a field name in any letter case is taken as the name in
\* capitals; a second parse in another letter case ends as the first; and a
\* field name outside the set of the scope it is read in fails the parse with
\* an unknown-field error at its line.
C10_AsStated ==
    /\ []CaseKeepsOutcome
    /\ [][/\ InsideSetIsKnown
          /\ \A i \in LineIdx :
                (ReadsField(i) /\ NameAt(i) \notin Accepts[CaseScope(i)]) =>
                    /\ pc' = "error"
                    /\ err'.ln = i
                    /\ IsUnknownField(err'.msg)]_vars

\* C10, amended: as stated, but a TRACK line read in Global scope fails the
\* parse with the TRACK-before-FILE error at its line, not with an
\* unknown-field error; and the two outcomes are the same up to the field
\* name an unknown-field message repeats as written.
C10_UnknownFieldExceptTrack ==
    /\ []CaseKeepsOutcome
    /\ [][/\ InsideSetIsKnown
          /\ \A i \in LineIdx :
                (ReadsField(i) /\ NameAt(i) \notin Accepts[CaseScope(i)]) =>
                    /\ pc' = "error"
                    /\ err'.ln = i
                    /\ IF CaseScope(i) = "Global" /\ NameAt(i) = "TRACK"
                       THEN err' = TrackBeforeAnyFile(i)
                       ELSE IsUnknownField(err'.msg)]_vars

\* The second parse of a sheet, its field names in small and capital letters
\* in turn, has failed at a CATALOG line in a track as the first parse did.
C10_Witness ==
    /\ first # None
    /\ recase = "mixed"
    /\ pc = "error"
    /\ err = [ln |-> 2, msg |-> "unknown field for a track: cAtAlOg"]
    /\ first[1].outcome.err = [ln |-> 2, msg |-> "unknown field for a track: CATALOG"]

----------------------------------------------------------------------------
(* C11 as stated: every disc of a document returned by a successful parse  *)
(* holds at least one track, and a sheet in which a FILE line is followed,  *)
(* before any TRACK line, by another FILE line or by the end of the input   *)
(* is never parsed with success.                                            *)
C11_AsStated ==
    pc = "done" =>
        /\ \A k \in 1..Len(cue.discs) : cue.discs[k].tracks # <<>>
        /\ \A f \in FileLines : TracksOf(f) # {}

----------------------------------------------------------------------------
(* C12 concerns the errors of the value parsers.                           *)

\* The messages of the errors that are not about a value.
StructuralMessages ==
    {"cue sheet is missing a 'FILE' declaration",
     "'TRACK' declared before any 'FILE'",
     "track is missing a 'INDEX' declaration"}

\* The parse has failed with the error of a value parser.
ValueError ==
    /\ pc = "error"
    /\ err.msg \notin StructuralMessages
    /\ ~IsUnknownField(err.msg)

\* C12 as stated: an error of a malformed value -- of a scalar field, a REM,
\* an INDEX time, a TRACK number or a FILE path, in any scope -- carries the
\* index of the line of that field.
C12_AsStated == ValueError => err.ln = probe.at

----------------------------------------------------------------------------
(* C13 concerns the probes whose remainder is empty or only whitespace.    *)

\* The remainder of the probe holds nothing but whitespace.
BlankRest == \A k \in 1..Len(probe.rest) : IsWhitespace(At(probe.rest, k))

\* The parser has read past the line of the probe.
Handled == ln > probe.at

\* C13 as stated: a scalar field (TITLE, PERFORMER, SONGWRITER, CATALOG,
\* ISRC), a FILE line or a TRACK line whose remainder is empty or only
\* whitespace fails the parse with a returned error, never with an abort.
C13_AsStated ==
    (/\ probe.name \in {"TITLE", "PERFORMER", "SONGWRITER", "CATALOG", "ISRC",
                        "FILE", "TRACK"}
     /\ BlankRest
     /\ Handled) => pc = "error"

----------------------------------------------------------------------------
(* C14 to C17 concern the value of a scalar field, read off the written    *)
(* remainder without the parser's operators.                               *)

\* The probe is one of the scalar fields parsed by parse_val.
ScalarProbe ==
    probe.name \in {"TITLE", "PERFORMER", "SONGWRITER", "CATALOG", "ISRC"}

\* The written remainder of the probe without its surrounding whitespace.
Value == trim(probe.rest)

\* The text opens with a double quote.
Opens(s) == Len(s) >= 1 /\ At(s, 1) = "\""

\* The position of the first double quote of s at or after k that no
\* backslash escapes, 0 when there is none.
RECURSIVE ClosingQuote(_, _)
ClosingQuote(s, k) ==
    IF k > Len(s) THEN 0
    ELSE IF At(s, k) = "\"" THEN k
    ELSE IF At(s, k) = "\\" THEN ClosingQuote(s, k + 2)
    ELSE ClosingQuote(s, k + 1)

\* The text opens a quoted literal that no unescaped double quote closes.
Unclosed(s) == Opens(s) /\ ClosingQuote(s, 2) = 0

UnterminatedMessage == "unterminated double-quoted string"

\* C14 as stated: a scalar field whose trimmed remainder opens with a double
\* quote that no unescaped double quote closes fails the parse with the
\* unterminated-string error and is never accepted as a value.
C14_AsStated ==
    (ScalarProbe /\ Unclosed(Value) /\ Handled) =>
        /\ pc = "error"
        /\ err.msg = UnterminatedMessage

\* The text behind the literal that s opens with: everything after the first
\* unescaped double quote behind the opening one.
AfterLiteral(s) == From(s, ClosingQuote(s, 2) + 1)

\* The text opens with a literal that is closed and followed by something
\* other than whitespace.
Trailing(s) ==
    /\ Opens(s)
    /\ ClosingQuote(s, 2) > 0
    /\ trim(AfterLiteral(s)) # ""

TooManyMessage == "too many values in line"

\* C15 as stated: a scalar field whose value begins with a double-quoted
\* literal followed by any content other than whitespace fails the parse with
\* the too-many-values error, whatever the trailing content is.
C15_AsStated ==
    (ScalarProbe /\ Trailing(Value) /\ Handled) =>
        /\ pc = "error"
        /\ err.msg = TooManyMessage

\* The escape mapping the specification states: n, t and r give newline, tab
\* and carriage return, any other character gives itself.
Mapped(c) ==
    IF c = "n" THEN "\n"
    ELSE IF c = "t" THEN "\t"
    ELSE IF c = "r" THEN "\r"
    ELSE c

\* The text with each backslash escape replaced by what it maps to, a final
\* lone backslash kept.
RECURSIVE Decoded(_)
Decoded(s) ==
    IF s = "" THEN ""
    ELSE IF At(s, 1) # "\\" THEN At(s, 1) \o Decoded(From(s, 2))
    ELSE IF Len(s) = 1 THEN "\\"
    ELSE Mapped(At(s, 2)) \o Decoded(From(s, 3))

\* The text is one unquoted word that holds a backslash.
UnquotedEscapes(s) ==
    /\ s # ""
    /\ ~Opens(s)
    /\ \A k \in 1..Len(s) : ~IsWhitespace(At(s, k))
    /\ \E k \in 1..Len(s) : At(s, k) = "\\"

\* The loop that reads the lines of the scope the probe is written in.
ScopeLoop ==
    CASE probe.scope = "Global" -> "global"
      [] probe.scope = "Disc"   -> "disc_fields"
      [] probe.scope = "Track"  -> "track_fields"
      [] OTHER                  -> ""

\* The line of the probe is the last line read, and its scope's loop goes on.
Accepted == ln = probe.at + 1 /\ pc = ScopeLoop

\* The object of the scope the probe is written in.
ScopeObject ==
    CASE probe.scope = "Global" -> cue
      [] probe.scope = "Disc"   -> disc
      [] OTHER                  -> track

\* What the scalar field of the probe holds in its scope.
Held == ScopeObject[to_lowercase(probe.name)]

\* C16 as stated: an unquoted scalar field value that holds backslash escapes
\* is accepted, and the field then holds the value with each escape decoded
\* (n, t, r to newline, tab, carriage return, any other character to itself)
\* and a final lone backslash kept.
C16_AsStated ==
    (ScalarProbe /\ UnquotedEscapes(Value)) =>
        /\ Handled => pc \notin {"error", "panic"}
        /\ Accepted => Held = Some(Decoded(Value))

\* The text is longer than one character, opens with a double quote and ends
\* with one.
Wrapped(s) == Len(s) > 1 /\ Opens(s) /\ At(s, Len(s)) = "\""

\* What lies between the first and the last character of the text.
Interior(s) == SubSeq(s, 2, Len(s) - 1)

\* The error of the parse is the message m at the line of the probe.
FailedWith(m) == pc = "error" /\ err = [ln |-> probe.at, msg |-> m]

\* C17: for a scalar field whose trimmed remainder is wrapped in double
\* quotes: if every interior double quote is escaped and the final one is
\* not, the field is accepted and holds the interior with each backslash
\* escape replaced (n, t, r by newline, tab, carriage return, any other
\* character by itself) and every other character copied; if the final double
\* quote is itself escaped and no unescaped one precedes it, the parse fails
\* as unterminated; if an unescaped double quote lies in the interior, the
\* parse fails with too many values.
C17_QuotedValue ==
    (ScalarProbe /\ Wrapped(Value)) =>
        CASE ClosingQuote(Value, 2) = Len(Value) ->
               /\ Handled => pc \notin {"error", "panic"}
               /\ Accepted => Held = Some(Decoded(Interior(Value)))
          [] ClosingQuote(Value, 2) = 0 ->
               Handled => FailedWith(UnterminatedMessage)
          [] OTHER ->
               Handled => FailedWith(TooManyMessage)

\* A title wrapped in double quotes whose escapes are decoded to a tab and a
\* carriage return has been stored.
C17_Witness ==
    /\ probe.name = "TITLE"
    /\ Value = "\"a\\tb\\rc\""
    /\ Accepted
    /\ cue.title = Some("a\tb\rc")

----------------------------------------------------------------------------
(* C18 concerns the time specifier of an INDEX line.                       *)

\* The number of colon-separated fields the text is written with.
FieldCount(s) == Cardinality({k \in 1..Len(s) : At(s, k) = ":"}) + 1

\* C18 as stated: an INDEX line whose time specifier is written with more
\* than 4 colon-separated fields fails the parse with an error at that INDEX
\* line, as one without a specifier or with a field that is no unsigned
\* decimal integer does.
C18_AsStated ==
    (probe.name = "INDEX" /\ FieldCount(probe.rest) > 4 /\ Handled) =>
        /\ pc = "error"
        /\ err.ln = probe.at

----------------------------------------------------------------------------
(* C19 concerns the REM lines: the key and the value are read off the      *)
(* written remainder.                                                      *)

\* The remainder of the probe without its leading whitespace.
Rem == trim_start(probe.rest)

\* The position of the first whitespace of s at or after k that no backslash
\* escapes, Len(s) + 1 when there is none.
RECURSIVE WordEnd(_, _)
WordEnd(s, k) ==
    IF k > Len(s) THEN Len(s) + 1
    ELSE IF IsWhitespace(At(s, k)) THEN k
    ELSE IF At(s, k) = "\\" THEN WordEnd(s, k + 2)
    ELSE WordEnd(s, k + 1)

\* The first token of the text is complete: a word, or a quoted literal that
\* is closed.
KeyClosed(s) == Opens(s) => ClosingQuote(s, 2) > 0

\* The first token of the text with its escapes decoded: the interior of the
\* quoted literal it opens with, or its first word.
KeyOf(s) ==
    IF Opens(s) THEN Decoded(SubSeq(s, 2, ClosingQuote(s, 2) - 1))
    ELSE Decoded(Upto(s, WordEnd(s, 1) - 1))

\* What follows the first token of the text.
AfterKey(s) ==
    IF Opens(s) THEN From(s, ClosingQuote(s, 2) + 1)
    ELSE From(s, WordEnd(s, 1) + 1)

\* What follows the key, trimmed and parsed as a value; the empty string
\* when nothing follows.
ValueAfterKey(s) ==
    IF trim(AfterKey(s)) = "" THEN Ok("") ELSE parse_val(trim(AfterKey(s)))

\* The comment maps of the scopes the probe is not written in are empty.
OtherRemsEmpty ==
    /\ probe.scope # "Global" => cue.rems = <<>>
    /\ probe.scope # "Disc" => disc.rems = <<>>
    /\ probe.scope # "Track" => track.rems = <<>>

\* C19 as stated: a REM line whose remainder is empty or only whitespace
\* fails the parse with an error at that line; otherwise, when the key token
\* is complete and what follows parses as a value, the line is accepted and
\* the comment map of its scope, and of no other scope, holds under the
\* decoded first token the trimmed rest parsed as a value, the empty string
\* when nothing follows the key.
C19_AsStated ==
    probe.name = "REM" =>
        IF Rem = ""
        THEN Handled => pc = "error" /\ err.ln = probe.at
        ELSE (KeyClosed(Rem) /\ ValueAfterKey(Rem).tag = "ok") =>
               /\ Handled => pc \notin {"error", "panic"}
               /\ Accepted =>
                    /\ ScopeObject.rems = insert(<<>>, KeyOf(Rem), ValueAfterKey(Rem).val)
                    /\ OtherRemsEmpty

----------------------------------------------------------------------------
(* C20 concerns the numbers of the tracks of a parsed document.            *)

\* The track numbers of the document built.
TrackNumbers ==
    UNION {{cue.discs[d].tracks[t].number : t \in 1..Len(cue.discs[d].tracks)} :
              d \in 1..Len(cue.discs)}

\* C20 as stated: every track of a successfully parsed document has a track
\* number that is at least 1; a TRACK line whose number token is 0 fails the
\* parse with the invalid-track-number error.
C20_AsStated == pc = "done" => \A n \in TrackNumbers : n >= 1

----------------------------------------------------------------------------
(* C21 to C24 concern the parse as a whole and what its caller makes of    *)
(* its result.                                                             *)

\* The document built has no track in any of its discs.
Trackless == \A d \in 1..Len(cue.discs) : cue.discs[d].tracks = <<>>

\* C21: once Job::new_jobs has acted on a document that the parser returned
\* with zero tracks across all of its discs, it has failed with 'cuesheet has
\* no tracks' and has built no job; jobs are only ever built from a document
\* that has a track.
C21_TracklessRejected ==
    /\ (pc = "done" /\ Trackless /\ caller # NoCaller) =>
           caller = [stage |-> "error", msg |-> "cuesheet has no tracks", jobs |-> <<>>]
    /\ caller.stage = "jobs" => (pc = "done" /\ ~Trackless)

\* A document of two FILE lines only has been returned by the parser and
\* rejected by new_jobs.
C21_Witness ==
    /\ pc = "done"
    /\ Len(cue.discs) = 2
    /\ Trackless
    /\ caller.stage = "error"
    /\ caller.msg = "cuesheet has no tracks"

\* The line index the scanner emitted last.
LastPulled == pulled[Len(pulled)]

\* The cursor stands on the line emitted last: the line was pushed back and
\* is the next one the scanner emits.
Rewound == pulled # <<>> /\ ln = LastPulled /\ NextEmitted = ln

\* C22: the scanner never emits a blank line; each triple has a larger line
\* index than the one before it, except that a FILE or TRACK line that was
\* pushed back is emitted a second time directly after the first; when a disc
\* parse starts the cursor stands on a FILE line that was pushed back, and
\* when a track parse finds a line at all it is a TRACK line that was pushed
\* back; the unwrap and the debug assertions of parse_disc never fail.
C22_Scanner ==
    /\ \A i \in 1..Len(pulled) : FieldAt(pulled[i]) # ""
    /\ \A i \in 1..(Len(pulled) - 1) :
           \/ pulled[i + 1] > pulled[i]
           \/ /\ pulled[i + 1] = pulled[i]
              /\ FieldAt(pulled[i]) \in {"file", "track"}
              /\ i > 1 => pulled[i - 1] < pulled[i]
    /\ pc = "disc" => (Rewound /\ FieldAt(ln) = "file")
    /\ (pc = "tracks" /\ NextEmitted < Len(lines)) =>
           (Rewound /\ FieldAt(ln) = "track")
    /\ pc # "panic"

\* A blank line was skipped, a TRACK line behind it was pushed back by the
\* disc loop and emitted again, and its track is being parsed.
C22_Witness ==
    /\ pc = "track_fields"
    /\ Len(pulled) >= 3
    /\ \E i \in 2..(Len(pulled) - 1) :
           /\ pulled[i + 1] = pulled[i]
           /\ FieldAt(pulled[i]) = "track"
           /\ pulled[i] > pulled[i - 1] + 1
           /\ FieldAt(pulled[i] - 1) = ""

\* How often the scanner has emitted the line index l.
Emitted(l) == Cardinality({i \in 1..Len(pulled) : pulled[i] = l})

\* The loops of the parser that read on from the cursor, and the heads of
\* parse_disc and of its track loop, which consume the line a loop pushed back.
Rank ==
    CASE pc \in {"global", "disc_fields", "track_fields"} -> 2
      [] pc \in {"disc", "tracks"} -> 1
      [] OTHER -> 0

\* What is left of the parse: the lines from the cursor on, counted twice,
\* and the place in the parser.
Measure == 2 * (Len(lines) - ln) + Rank

\* C23: the parse of every sheet terminates: every step of the parser leaves
\* less of the parse than it found and never less than nothing, so only
\* finitely many steps are taken before a document or an error is returned;
\* a step that pushes a line back keeps the cursor and hands over to a head
\* that consumes the line, the scanner emits each line at most twice, and the
\* cursor never passes the end of the input.
C23_Terminates ==
    [][/\ Measure' < Measure
       /\ Measure' >= 0
       /\ pc' \in {"disc", "tracks"} => ln' >= ln
       /\ pc \in {"disc", "tracks"} => (ln' > ln \/ Rank' = 0)
       /\ \A l \in LineIdx : Emitted(l)' <= 2
       /\ ln' <= Len(lines)]_vars

\* A parse has returned a document after emitting a line twice.
C23_Witness ==
    /\ pc = "done"
    /\ \E l \in LineIdx : Emitted(l) = 2

\* C24 as stated: whenever Parser::parse has failed, the line index of its
\* error is an index into the input lines, and cue::parse renders the error
\* with that line instead of aborting.
C24_AsStated ==
    pc = "error" =>
        /\ err.ln < Len(lines)
        /\ caller.stage # "panic"

----------------------------------------------------------------------------
(* C25 concerns the first word of a FILE, TRACK or REM remainder.          *)

\* The first word of the text, as written.
FirstWord(s) == Upto(s, WordEnd(s, 1) - 1)

\* The probe is a FILE, TRACK or REM line whose remainder starts with an
\* unquoted word.
UnquotedWordProbe ==
    /\ probe.name \in {"FILE", "TRACK", "REM"}
    /\ Rem # ""
    /\ ~Opens(Rem)

\* C25 as stated: for every non-empty unquoted first word of a FILE, TRACK or
\* REM remainder, whatever the width of its last character, parse_str never
\* aborts, and the path of a FILE line is the decoded word.
C25_AsStated ==
    UnquotedWordProbe =>
        /\ pc # "panic"
        /\ (probe.name = "FILE" /\ ln = probe.at + 1 /\ pc = "disc_fields") =>
               disc.file = Decoded(FirstWord(Rem))

============================================================================
